---- MODULE Spec2Model ----
(***************************************************************************)
(* Weather lookup and cache-aside pipeline of weather-cli:                 *)
(*   server/pkg/cache  (Client.Get / Client.Set, buildKey, roundTo15Min)   *)
(*   pkg/weather       (GetWeather, readCities, loadWeatherCodes)          *)
(*   server/main.go    (weatherHandler)                                    *)
(* Strings that the code takes apart (city names) are sequences of         *)
(* one-character strings; floats are integers; a time.Time is a record of  *)
(* unix seconds and nanoseconds, read in a fixed-offset time.Location.     *)
(***************************************************************************)
EXTENDS Integers, Sequences, FiniteSets, TLC

\* ------------------------------------------------------------------------
\* time.Time arithmetic used by the cache key
\* ------------------------------------------------------------------------
\* wall-clock seconds of t in a Location that is off seconds east of UTC
Wall(t, off) == t.unix + off

\* t.Minute(), t.Hour() and the calendar day of t in its Location
Minute(t, off) == (Wall(t, off) \div 60) % 60
Hour(t, off)   == (Wall(t, off) \div 3600) % 24
Day(t, off)    == Wall(t, off) \div 86400

\* time.Date(day, hour, min, sec, nsec, loc)
Date(day, hour, min, sec, nsec, off) ==
    [unix |-> day * 86400 + hour * 3600 + min * 60 + sec - off,
     nsec |-> nsec]

\* faulty variant of roundTo15Min: the minute is kept as it is
roundTo15Min_keepMinute(t, off) ==
    Date(Day(t, off), Hour(t, off), Minute(t, off), 0, 0, off)

\* faulty variant of roundTo15Min: rounds to the hour
roundTo15Min_hourly(t, off) ==
    Date(Day(t, off), Hour(t, off), 0, 0, 0, off)

\* faulty variant of roundTo15Min: rounds to the half hour
roundTo15Min_halfHour(t, off) ==
    Date(Day(t, off), Hour(t, off), (Minute(t, off) \div 30) * 30, 0, 0, off)

\* roundTo15Min: minute := (minute / 15) * 15, seconds and nanoseconds zero
roundTo15Min(t, off) ==
    LET minute        == Minute(t, off)
        roundedMinute == (minute \div 15) * 15
    IN  Date(Day(t, off), Hour(t, off), roundedMinute, 0, 0, off)

\* the quarter of the hour a minute lies in: 0-14, 15-29, 30-44, 45-59
Quarter(m) ==
    CASE m \in 0..14  -> 0
      [] m \in 15..29 -> 1
      [] m \in 30..44 -> 2
      [] OTHER        -> 3

SameWindow(t1, t2, off) ==
    /\ Day(t1, off) = Day(t2, off)
    /\ Hour(t1, off) = Hour(t2, off)
    /\ Quarter(Minute(t1, off)) = Quarter(Minute(t2, off))

WindowIndex(t, off) ==
    (Day(t, off) * 24 + Hour(t, off)) * 4 + Quarter(Minute(t, off))

\* t.UTC().Format(time.RFC3339): day, hour, minute, second of t in UTC;
\* the layout prints no fraction of a second
FormatRFC3339UTC(t) ==
    << Day(t, 0), Hour(t, 0), Minute(t, 0), Wall(t, 0) % 60 >>

\* faulty variant of buildKey: the key names the city only
buildKey_cityOnly(city, t, off) ==
    << "weather", city, FormatRFC3339UTC(Date(0, 0, 0, 0, 0, 0)) >>

\* buildKey: "weather:<city>:<rounded-timestamp>"
buildKey(city, t, off) ==
    << "weather", city, FormatRFC3339UTC(roundTo15Min(t, off)) >>

\* ------------------------------------------------------------------------
\* strings.TrimSpace, strings.ToLower, strings.Split(s, ",")[0]
\* ------------------------------------------------------------------------
IsSpace(c) == c \in {" ", "\t"}

Upper == << "A", "B", "C", "D", "E", "F", "G", "H", "I", "J", "K", "L", "M",
            "N", "O", "P", "Q", "R", "S", "T", "U", "V", "W", "X", "Y", "Z" >>
Lower == << "a", "b", "c", "d", "e", "f", "g", "h", "i", "j", "k", "l", "m",
            "n", "o", "p", "q", "r", "s", "t", "u", "v", "w", "x", "y", "z" >>

LowerChar(c) ==
    IF \E i \in 1..Len(Upper) : Upper[i] = c
    THEN Lower[CHOOSE i \in 1..Len(Upper) : Upper[i] = c]
    ELSE c

ToLower(s) == [i \in 1..Len(s) |-> LowerChar(s[i])]

RECURSIVE TrimLeft(_)
TrimLeft(s) ==
    IF s # <<>> /\ IsSpace(Head(s)) THEN TrimLeft(Tail(s)) ELSE s

RECURSIVE TrimRight(_)
TrimRight(s) ==
    IF s # <<>> /\ IsSpace(s[Len(s)])
    THEN TrimRight(SubSeq(s, 1, Len(s) - 1))
    ELSE s

\* faulty variant of TrimSpace: only leading white space is removed
TrimSpace_leftOnly(s) == TrimLeft(s)

TrimSpace(s) == TrimRight(TrimLeft(s))

RECURSIVE BeforeComma(_)
BeforeComma(s) ==
    IF s = <<>> \/ Head(s) = "," THEN <<>> ELSE <<Head(s)>> \o BeforeComma(Tail(s))

\* faulty variant of CityKey: what follows the first comma is dropped
CityKey_beforeComma(city) == BeforeComma(ToLower(TrimSpace(city)))

\* cityKey := strings.ToLower(strings.TrimSpace(city))
CityKey(city) == ToLower(TrimSpace(city))

\* strings.ReplaceAll(s, " ", "_"), as the command-line program's
\* GetLocationByCity normalises a city
ReplaceSpaces(s) == [i \in 1..Len(s) |-> IF s[i] = " " THEN "_" ELSE s[i]]

\* faulty variant of BlankCity: only the empty string counts as blank
BlankCity_emptyOnly(city) == city = << >>

\* strings.TrimSpace(city) == ""
BlankCity(city) == TrimSpace(city) = << >>


\* ------------------------------------------------------------------------
\* city names used as inputs and as keys of the location table
\* ------------------------------------------------------------------------
mumbai       == << "m", "u", "m", "b", "a", "i" >>
MumbaiPadded == << " ", " ", "M", "u", "m", "b", "a", "i", " ", " " >>
chennai      == << "c", "h", "e", "n", "n", "a", "i" >>
chennaiIndia == chennai \o << ",", " ", "i", "n", "d", "i", "a" >>
nowhereville == << "N", "o", "w", "h", "e", "r", "e" >>
blank        == << " ", " " >>
empty        == << >>
MUMBAI       == << "M", "U", "M", "B", "A", "I" >>
TabMumbai    == << "\t", "m", "u", "m", "b", "a", "i" >>
new_delhi    == << "n", "e", "w", "_", "d", "e", "l", "h", "i" >>
NewDelhi     == << "N", "e", "w", " ", "D", "e", "l", "h", "i" >>
ChennaiTN    == << "C", "h", "e", "n", "n", "a", "i", ",", "T", "N" >>
nowhereIndia == << "n", "o", "w", "h", "e", "r", "e", ",", " ", "i", "n", "d", "i", "a" >>

\* the map readCities builds from locations/cities.json: name -> (lat, lon),
\* coordinates in hundredths of a degree
CitiesTable ==
    [name \in {mumbai, chennai, new_delhi} |->
        CASE name = mumbai  -> << 1907, 7287 >>
          [] name = chennai -> << 1308, 8027 >>
          [] OTHER          -> << 2861, 7720 >>]

\* the map loadWeatherCodes builds from weather_codes/data.json
CodesTable ==
    [code \in {0, 1, 2, 3, 61} |->
        CASE code = 0 -> << "Clear sky" >>
          [] code = 1 -> << "Mainly clear" >>
          [] code = 2 -> << "Partly cloudy" >>
          [] code = 3 -> << "Overcast" >>
          [] OTHER    -> << "Slight rain" >>]

\* ------------------------------------------------------------------------
\* errors: msg is the text, is the set of sentinels errors.Is finds in it
\* ------------------------------------------------------------------------
NoError              == [msg |-> "", is |-> {}, detail |-> << >>]
ErrCityRequired      == [msg |-> "city name is required", is |-> {}, detail |-> << >>]
ErrCitiesUnavailable == [msg |-> "cities data unavailable",
                         is |-> {"ErrCitiesUnavailable"}, detail |-> << >>]
ErrCityNotFound      == [msg |-> "city not found",
                         is |-> {"ErrCityNotFound"}, detail |-> << >>]
ErrUpstreamRequest   == [msg |-> "upstream request failed", is |-> {}, detail |-> << >>]
ErrUpstreamStatus(code, body) ==
    [msg |-> "upstream error", is |-> {}, detail |-> << code, body >>]
ErrDecode            == [msg |-> "decode failed", is |-> {}, detail |-> << >>]
ErrCache             == [msg |-> "redis get failed", is |-> {}, detail |-> << >>]

\* ------------------------------------------------------------------------
\* WeatherResp and its JSON form
\* ------------------------------------------------------------------------
ZeroResp ==
    [City |-> << >>, TempC |-> 0, Description |-> << >>, Timestamp |-> "",
     Lat |-> 0, Lon |-> 0, WeatherCode |-> 0, Humidity |-> 0, Rain |-> 0]

JSONNames == {"city", "temp_c", "description", "time", "lat", "lon",
              "weather_code", "relative_humidity_2m", "rain"}

FieldOf(name) ==
    CASE name = "city"                 -> "City"
      [] name = "temp_c"               -> "TempC"
      [] name = "description"          -> "Description"
      [] name = "time"                 -> "Timestamp"
      [] name = "lat"                  -> "Lat"
      [] name = "lon"                  -> "Lon"
      [] name = "weather_code"         -> "WeatherCode"
      [] name = "relative_humidity_2m" -> "Humidity"
      [] OTHER                         -> "Rain"

\* a byte that is no UTF-8, as a percent-escape in the query can carry into
\* city, and the rune encoding/json writes in its place
InvalidByte     == "xFF"
ReplacementChar == "uFFFD"

\* encoding/json coerces a string to valid UTF-8 when it writes it
ToValidUTF8(s) ==
    [i \in 1..Len(s) |-> IF s[i] = InvalidByte THEN ReplacementChar ELSE s[i]]

\* json.Marshal(WeatherResp): lat and lon carry omitempty; description and
\* time come out of a JSON decoder and are valid UTF-8 already
Marshal(r) ==
    LET omitted == {n \in {"lat", "lon"} : r[FieldOf(n)] = 0}
    IN  [valid |-> TRUE, text |-> "",
         obj   |-> [n \in JSONNames \ omitted |->
                      IF n = "city" THEN ToValidUTF8(r.City)
                      ELSE r[FieldOf(n)]]]

\* bytes that are no JSON object, such as a plain-text error page
Text(str) == [valid |-> FALSE, text |-> str, obj |-> [n \in {} |-> 0]]
Garbage   == Text("not json")

\* faulty variant of Unmarshal: the fields that carry omitempty are not read
Unmarshal_skipsOptional(data) ==
    IF ~data.valid
    THEN [ok |-> FALSE, resp |-> ZeroResp]
    ELSE [ok   |-> TRUE,
          resp |-> [f \in DOMAIN ZeroResp |->
                      LET ns == {n \in DOMAIN data.obj \ {"lat", "lon"} :
                                    FieldOf(n) = f}
                      IN  IF ns = {} THEN ZeroResp[f]
                          ELSE data.obj[CHOOSE n \in ns : TRUE]]]

\* json.Unmarshal(data, &resp): a field the object lacks keeps its zero value
Unmarshal(data) ==
    IF ~data.valid
    THEN [ok |-> FALSE, resp |-> ZeroResp]
    ELSE [ok   |-> TRUE,
          resp |-> [f \in DOMAIN ZeroResp |->
                      LET ns == {n \in DOMAIN data.obj : FieldOf(n) = f}
                      IN  IF ns = {} THEN ZeroResp[f]
                          ELSE data.obj[CHOOSE n \in ns : TRUE]]]

\* ------------------------------------------------------------------------
\* pkg/weather: readCities, the lookup, the upstream exchange, the codes
\* ------------------------------------------------------------------------
\* faulty variant of readCities: a file that cannot be used gives an empty
\* table and no error
readCities_emptyOnFailure(file) ==
    IF file = "ok"
    THEN [err |-> FALSE, cities |-> CitiesTable]
    ELSE [err |-> FALSE, cities |-> [name \in {} |-> << 0, 0 >>]]

\* readCities: the state of locations/cities.json decides the outcome; a file
\* that is missing, empty, no JSON of either accepted shape, or without an
\* entry that has coordinates gives an error
readCities(file) ==
    IF file = "ok"
    THEN [err |-> FALSE, cities |-> CitiesTable]
    ELSE [err |-> TRUE,  cities |-> [name \in {} |-> << 0, 0 >>]]

\* faulty variant of Lookup: the part before the comma is never tried
Lookup_exactOnly(cities, cityKey) ==
    IF cityKey \in DOMAIN cities
    THEN [ok |-> TRUE, coords |-> cities[cityKey]]
    ELSE [ok |-> FALSE, coords |-> << 0, 0 >>]

\* exact key first, then the part before the first comma
Lookup(cities, cityKey) ==
    IF cityKey \in DOMAIN cities
    THEN [ok |-> TRUE, coords |-> cities[cityKey]]
    ELSE LET first == BeforeComma(cityKey)
         IN  IF first \in DOMAIN cities
             THEN [ok |-> TRUE, coords |-> cities[first]]
             ELSE [ok |-> FALSE, coords |-> << 0, 0 >>]

\* what httpClient.Do returns: a transport error, or a status and a body
NoResponse == [transport |-> "none", status |-> 0, body |-> Text("")]

UpstreamObj(temp, code) ==
    [valid |-> TRUE, text |-> "",
     obj |-> [latitude |-> 1900, longitude |-> 7300, temperature |-> temp,
              weather_code |-> code, time |-> "2025-10-03T10:00",
              relative_humidity_2m |-> 70, rain |-> 0]]

Responses ==
    { [transport |-> "error", status |-> 0,   body |-> Text("")],
      [transport |-> "ok",    status |-> 503, body |-> Text("Service Unavailable")],
      [transport |-> "ok",    status |-> 200, body |-> Garbage],
      [transport |-> "ok",    status |-> 200, body |-> UpstreamObj(27, 3)],
      [transport |-> "ok",    status |-> 200, body |-> UpstreamObj(31, 17)] }

\* json.NewDecoder(resp.Body).Decode(&raw)
DecodeRaw(body) ==
    IF body.valid THEN [ok |-> TRUE, raw |-> body.obj]
    ELSE [ok |-> FALSE, raw |-> UpstreamObj(0, 0).obj]

\* the map loadWeatherCodes returns when the file cannot be read
FallbackTable ==
    [code \in {0, 1, 2, 3} |->
        CASE code = 0 -> << "Clear sky" >>
          [] code = 1 -> << "Mainly clear" >>
          [] code = 2 -> << "Partly cloudy" >>
          [] OTHER    -> << "Overcast" >>]

\* loadWeatherCodes: the state of weather_codes/data.json decides the map;
\* content that does not parse gives an empty map
loadWeatherCodes(file) ==
    CASE file = "unreadable" -> FallbackTable
      [] file = "corrupt" -> [code \in {} |-> << >>]
      [] OTHER -> CodesTable

\* faulty variant of Describe: a code the map lacks gets the zero string
Describe_emptyOnMiss(codes, code) ==
    IF code \in DOMAIN codes THEN codes[code] ELSE << "" >>

\* desc, ok := codes[code]; if !ok { desc = "Unknown code %d" }
Describe(codes, code) ==
    IF code \in DOMAIN codes THEN codes[code] ELSE << "Unknown code ", code >>

\* faulty variant of Assemble: City is the normalised key
Assemble_normalizedCity(city, raw, desc) ==
    [City        |-> CityKey(city),
     TempC       |-> raw.temperature,
     Description |-> desc,
     Timestamp   |-> raw.time,
     Lat         |-> raw.latitude,
     Lon         |-> raw.longitude,
     WeatherCode |-> 0,
     Humidity    |-> raw.relative_humidity_2m,
     Rain        |-> raw.rain]

\* out := WeatherResp{...}: WeatherCode is not among the fields it sets
Assemble(city, raw, desc) ==
    [City        |-> city,
     TempC       |-> raw.temperature,
     Description |-> desc,
     Timestamp   |-> raw.time,
     Lat         |-> raw.latitude,
     Lon         |-> raw.longitude,
     WeatherCode |-> 0,
     Humidity    |-> raw.relative_humidity_2m,
     Rain        |-> raw.rain]

\* faulty variant of Fetched: the status of the response is not looked at
Fetched_statusIgnored(city, response, codesFile) ==
    IF response.transport # "ok"
    THEN [resp |-> ZeroResp, err |-> ErrUpstreamRequest]
    ELSE LET dec == DecodeRaw(response.body)
         IN  IF ~dec.ok
             THEN [resp |-> ZeroResp, err |-> ErrDecode]
             ELSE [resp |-> Assemble(city, dec.raw,
                              Describe(loadWeatherCodes(codesFile),
                                       dec.raw.weather_code)),
                   err  |-> NoError]

\* faulty variant of Fetched: a body that does not decode is taken as a
\* result with zero values
Fetched_decodeIgnored(city, response, codesFile) ==
    IF response.transport # "ok"
    THEN [resp |-> ZeroResp, err |-> ErrUpstreamRequest]
    ELSE IF response.status # 200
    THEN [resp |-> ZeroResp,
          err  |-> ErrUpstreamStatus(response.status, response.body.text)]
    ELSE LET dec == DecodeRaw(response.body)
         IN  [resp |-> Assemble(city, dec.raw,
                          Describe(loadWeatherCodes(codesFile),
                                   dec.raw.weather_code)),
              err  |-> NoError]

\* the upstream part of GetWeather: request, status check, decode, assemble
Fetched(city, response, codesFile) ==
    IF response.transport # "ok"
    THEN [resp |-> ZeroResp, err |-> ErrUpstreamRequest]
    ELSE IF response.status # 200
    THEN [resp |-> ZeroResp,
          err  |-> ErrUpstreamStatus(response.status, response.body.text)]
    ELSE LET dec == DecodeRaw(response.body)
         IN  IF ~dec.ok
             THEN [resp |-> ZeroResp, err |-> ErrDecode]
             ELSE [resp |-> Assemble(city, dec.raw,
                              Describe(loadWeatherCodes(codesFile),
                                       dec.raw.weather_code)),
                   err  |-> NoError]

\* GetWeather of pkg/weather, which has no cache: validate, resolve, fetch
GetWeatherDirect(city, citiesFile, response, codesFile) ==
    IF BlankCity(city)
    THEN [resp |-> ZeroResp, err |-> ErrCityRequired]
    ELSE LET cityKey == CityKey(city)
             rc      == readCities(citiesFile)
         IN  IF rc.err
             THEN [resp |-> ZeroResp, err |-> ErrCitiesUnavailable]
             ELSE IF ~Lookup(rc.cities, cityKey).ok
             THEN [resp |-> ZeroResp, err |-> ErrCityNotFound]
             ELSE Fetched(city, response, codesFile)

\* ------------------------------------------------------------------------
\* the upstream exchange in time; seconds since the handler was entered
\* ------------------------------------------------------------------------
\* httpClient's Timeout and the timeout weatherHandler puts on the context
ClientTimeout  == 10
HandlerTimeout == 15

Min(a, b) == IF a <= b THEN a ELSE b

\* what is left of a body whose transfer was cut off
Truncated == Text("")

\* the moment the request's context is done: the caller went away at
\* cancelAt, or the handler's timeout ran out
CtxDoneAt(cancelAt) == Min(cancelAt, HandlerTimeout)

\* the outcomes of an exchange that is stopped at stopAt: before the headers
\* have arrived Do returns an error; between headers and end of body Do
\* has returned and the read of the body is cut off; a stop that falls on
\* the arrival itself can go either way
Exchange(response, startAt, headersAfter, bodyAfter, stopAt) ==
    LET headersAt == startAt + headersAfter
        bodyAt    == headersAt + bodyAfter
        failed(at) == [response |-> [transport |-> "error", status |-> 0,
                                     body |-> Text("")],
                       at |-> IF at < startAt THEN startAt ELSE at]
        cut       == [response |-> [response EXCEPT !.body = Truncated],
                      at |-> stopAt]
        whole     == [response |-> response, at |-> bodyAt]
    IN  IF response.transport # "ok"
        THEN {failed(Min(stopAt, headersAt))}
        ELSE   (IF stopAt <= headersAt THEN {failed(stopAt)} ELSE {})
          \cup (IF headersAt <= stopAt /\ headersAt < bodyAt /\ stopAt <= bodyAt
                THEN {cut} ELSE {})
          \cup (IF bodyAt <= stopAt THEN {whole} ELSE {})

\* faulty variant of Do: the request is built without the caller's context
Do_ignoresContext(response, startAt, headersAfter, bodyAfter, ctxDoneAt) ==
    Exchange(response, startAt, headersAfter, bodyAfter,
             startAt + ClientTimeout)

\* http.NewRequestWithContext(ctx, ...) and httpClient.Do(req), with the
\* read of the body that follows: the exchange stops when the context is
\* done or when the client's timeout runs out, whichever is first
Do(response, startAt, headersAfter, bodyAfter, ctxDoneAt) ==
    Exchange(response, startAt, headersAfter, bodyAfter,
             Min(ctxDoneAt, startAt + ClientTimeout))

\* ------------------------------------------------------------------------
\* server/pkg/cache: the Redis store and Client.Get / Client.Set
\* ------------------------------------------------------------------------
\* 15*time.Minute, in seconds
TTL == 15 * 60

\* the server's time.Local: IST, five and a half hours east of UTC
LocalOffset == 330 * 60

NilBytes == [nil |-> TRUE, bytes |-> Text("")]
Bytes(b) == [nil |-> FALSE, bytes |-> b]

\* c.rdb.Get(ctx, key).Result(): redis.Nil for a key that is absent or past
\* its expiry, an error when the exchange itself fails
RedisGet(store, key, unix, fault) ==
    IF fault THEN [kind |-> "error", val |-> Text("")]
    ELSE IF key \in DOMAIN store /\ unix < store[key].exp
    THEN [kind |-> "val", val |-> store[key].val]
    ELSE [kind |-> "nil", val |-> Text("")]

\* faulty variant of ClientGet: redis.Nil is passed on as an error
ClientGet_nilIsError(store, city, at, fault) ==
    LET reply == RedisGet(store, buildKey(city, at, LocalOffset), at.unix, fault)
    IN  IF reply.kind = "val"
        THEN [data |-> Bytes(reply.val), err |-> FALSE]
        ELSE [data |-> NilBytes, err |-> TRUE]

\* faulty variant of ClientGet: the value found is not handed back
ClientGet_valueDropped(store, city, at, fault) ==
    LET reply == RedisGet(store, buildKey(city, at, LocalOffset), at.unix, fault)
    IN  IF reply.kind = "error"
        THEN [data |-> NilBytes, err |-> TRUE]
        ELSE [data |-> NilBytes, err |-> FALSE]

\* Client.Get: (nil, nil) on redis.Nil, (nil, err) on an error, the bytes else
ClientGet(store, city, at, fault) ==
    LET key   == buildKey(city, at, LocalOffset)
        reply == RedisGet(store, key, at.unix, fault)
    IN  IF reply.kind = "nil"
        THEN [data |-> NilBytes, err |-> FALSE]
        ELSE IF reply.kind = "error"
        THEN [data |-> NilBytes, err |-> TRUE]
        ELSE [data |-> Bytes(reply.val), err |-> FALSE]

\* faulty variant of ClientSet: the entry is written without an expiry that
\* the model's clock can reach
ClientSet_noExpiry(store, city, at, data, fault) ==
    LET key == buildKey(city, at, LocalOffset)
    IN  IF fault
        THEN [store |-> store, err |-> TRUE]
        ELSE [store |-> [k \in DOMAIN store \cup {key} |->
                            IF k = key
                            THEN [val |-> data, exp |-> at.unix + 100 * TTL]
                            ELSE store[k]],
              err   |-> FALSE]

\* faulty variant of ClientSet: a key the store holds is not written again
ClientSet_keepsExisting(store, city, at, data, fault) ==
    LET key == buildKey(city, at, LocalOffset)
    IN  IF fault
        THEN [store |-> store, err |-> TRUE]
        ELSE [store |-> [k \in DOMAIN store \cup {key} |->
                            IF k \in DOMAIN store THEN store[k]
                            ELSE [val |-> data, exp |-> at.unix + TTL]],
              err   |-> FALSE]

\* Client.Set: SET key data EX 900; the store is unchanged when it fails
ClientSet(store, city, at, data, fault) ==
    LET key == buildKey(city, at, LocalOffset)
    IN  IF fault
        THEN [store |-> store, err |-> TRUE]
        ELSE [store |-> [k \in DOMAIN store \cup {key} |->
                            IF k = key
                            THEN [val |-> data, exp |-> at.unix + TTL]
                            ELSE store[k]],
              err   |-> FALSE]

\* ------------------------------------------------------------------------
\* server/main.go: main's start of the cache
\* ------------------------------------------------------------------------
\* the address main falls back to
DefaultAddr == "localhost:6379"
RemoteAddr  == "redis:6379"
Secret      == "secret"

\* an environment in which neither variable is set
NoEnv == [REDIS_ADDR |-> "", REDIS_PASSWORD |-> ""]

\* os.Getenv: the value, "" when the variable is unset
Getenv(e, name) == e[name]

\* a Redis server: where it listens and the password it requires ("" when
\* it requires none)
LocalServer  == [addr |-> DefaultAddr, requirepass |-> ""]
RemoteServer == [addr |-> RemoteAddr, requirepass |-> Secret]
NoServers    == {}

\* cache.NewClient: the client is returned when the ping succeeds. A server
\* without a password answers a client that sends one with an error before
\* Redis 6 and accepts it since, so both outcomes are possible.
NewClient(srv, addr, password) ==
    IF \E s \in srv : s.addr = addr /\ s.requirepass = password
    THEN {TRUE}
    ELSE IF \E s \in srv : s.addr = addr /\ s.requirepass = "" /\ password # ""
    THEN {TRUE, FALSE}
    ELSE {FALSE}

\* faulty variant of main: the cache is left off unless both variables are set
main_requiresEnv(e, srv) ==
    LET redisAddr     == Getenv(e, "REDIS_ADDR")
        redisPassword == Getenv(e, "REDIS_PASSWORD")
    IN  IF redisAddr = "" \/ redisPassword = ""
        THEN {FALSE}
        ELSE NewClient(srv, redisAddr, redisPassword)

\* main: the values weather.cacheClient can have once main has started the
\* server (TRUE: SetCacheClient was called, FALSE: it stays nil)
main(e, srv) ==
    LET redisAddr     == IF Getenv(e, "REDIS_ADDR") = "" THEN DefaultAddr
                         ELSE Getenv(e, "REDIS_ADDR")
        redisPassword == Getenv(e, "REDIS_PASSWORD")
    IN  NewClient(srv, redisAddr, redisPassword)

\* ------------------------------------------------------------------------
\* server/main.go: weatherHandler's mapping of GetWeather's result
\* ------------------------------------------------------------------------
ErrorBody(message) ==
    [valid |-> TRUE, text |-> "", obj |-> [error |-> message]]

\* faulty variant of HandlerReply: every failure is answered 500
HandlerReply_always500(resp, err) ==
    IF err # NoError
    THEN [status |-> 500, body |-> ErrorBody("upstream or server error")]
    ELSE [status |-> 200, body |-> Marshal(resp)]

\* faulty variant of HandlerReply, the handler as it was before the error
\* mapping: http.Error(w, "failed to get weather: "+err.Error(), 500)
HandlerReply_echoesError(resp, err) ==
    IF err # NoError
    THEN [status |-> 500,
          body |-> Text("failed to get weather: " \o err.msg
                            \o " " \o ToString(err.detail))]
    ELSE [status |-> 200, body |-> Marshal(resp)]

HandlerReply(resp, err) ==
    IF err # NoError
    THEN IF "ErrCityNotFound" \in err.is
         THEN [status |-> 404, body |-> ErrorBody("city not found")]
         ELSE [status |-> 500, body |-> ErrorBody("upstream or server error")]
    ELSE [status |-> 200, body |-> Marshal(resp)]

\* ------------------------------------------------------------------------
\* the running server: one worker per inbound request, one shared store
\* ------------------------------------------------------------------------
MaxCalls == 2
MaxTicks == 2

Workers     == {1, 2}
TickStep    == TTL \div 2
StartTime   == Date(20364, 10, 7, 23, 0, LocalOffset).unix
InputCities == {mumbai, MumbaiPadded, chennaiIndia, nowhereville, blank, empty}
CitiesFiles == {"ok", "unreadable"}
CodesFiles  == {"ok", "unreadable"}

VARIABLES
    now,          \* the wall clock, unix seconds
    ticks,        \* how often the clock has advanced
    rdb,          \* the Redis store: key -> [val, exp]
    env,          \* the environment main reads: REDIS_ADDR, REDIS_PASSWORD
                  \* ("" when unset, as os.Getenv reports it)
    servers,      \* the Redis servers that listen when main starts
    cacheClient,  \* weather.cacheClient is set (TRUE) or nil (FALSE)
    req,          \* per worker: the request it serves and how far it is
    calls,        \* requests accepted so far
    filled,       \* the (city key, window) pairs for which a call has
                  \* returned that made one upstream call and stored its
                  \* result, Get and Set in that window
    kin, kout,    \* inputs and outputs of the key computation (SpecKey)
    din, dout,    \* one request to the server without a cache (SpecDirect)
    nin, nout,    \* two city inputs and their normal forms (SpecNorm)
    jin, jout,    \* a WeatherResp, its JSON form and what decodes from it
                  \* (SpecTrip)
    tin, tout     \* one request, the timing of its upstream exchange and the
                  \* time its context is done (SpecCancel)

sysVars == << now, ticks, rdb, env, servers, cacheClient, req, calls, filled >>
keyVars == << kin, kout >>
dirVars == << din, dout >>
nrmVars == << nin, nout >>
tripVars == << jin, jout >>
timedVars == << tin, tout >>
pureVars == << kin, kout, din, dout, nin, nout, jin, jout, tin, tout >>
vars    == << now, ticks, rdb, env, servers, cacheClient, req, calls, filled,
             kin, kout, din, dout, nin, nout, jin, jout, tin, tout >>

Now == [unix |-> now, nsec |-> 0]

IdleReq ==
    [pc |-> "idle", method |-> "", city |-> << >>, cityKey |-> << >>,
     out |-> ZeroResp, err |-> NoError,
     get |-> "none", getSaw |-> "none", getRet |-> [data |-> NilBytes, err |-> FALSE],
     sawVal |-> Text(""), getKey |-> << >>, getWin |-> << >>,
     set |-> "none", setKey |-> << >>, setWin |-> << >>,
     resolved |-> FALSE, upstream |-> 0,
     citiesFile |-> "-", response |-> NoResponse,
     prior |-> FALSE, status |-> 0, body |-> Text("")]

KeyIdle == [city |-> << >>, t1 |-> [unix |-> 0, nsec |-> 0],
            t2 |-> [unix |-> 0, nsec |-> 0], off |-> 0]

DirIdle == [method |-> "", city |-> << >>, citiesFile |-> "-",
            response |-> NoResponse, codesFile |-> "-"]
NrmIdle == [city1 |-> << >>, city2 |-> << >>, at |-> [unix |-> 0, nsec |-> 0]]
NotRun  == [done |-> FALSE]
TimedIdle == [city |-> << >>, response |-> NoResponse, startAt |-> 0,
              headersAfter |-> 0, bodyAfter |-> 0, cancelAt |-> 0]

Init ==
    /\ now = StartTime
    /\ ticks = 0
    /\ rdb = [k \in {} |-> [val |-> Text(""), exp |-> 0]]
    /\ env = [REDIS_ADDR |-> RemoteAddr, REDIS_PASSWORD |-> Secret]
    /\ servers \in {NoServers, {RemoteServer}}
    /\ cacheClient \in main(env, servers)
    /\ req = [w \in Workers |-> IdleReq]
    /\ calls = 0
    /\ filled = {}
    /\ kin = KeyIdle
    /\ kout = << >>
    /\ din = DirIdle /\ dout = NotRun
    /\ nin = NrmIdle /\ nout = NotRun
    /\ jin = ZeroResp /\ jout = NotRun
    /\ tin = TimedIdle /\ tout = NotRun

\* a worker that has written its reply is gone at the next step
Live == [w \in Workers |-> IF req[w].pc = "done" THEN IdleReq ELSE req[w]]

\* GetWeather returns (resp, err) in state r of worker w; weatherHandler
\* writes the reply
Finish(w, r, resp, err) ==
    LET reply == HandlerReply(resp, err)
    IN  /\ req' = [Live EXCEPT ![w] =
                     [r EXCEPT !.pc = "done", !.out = resp, !.err = err,
                               !.status = reply.status, !.body = reply.body]]
        /\ filled' = IF r.set = "ok" /\ r.upstream = 1 /\ r.setWin = r.getWin
                     THEN filled \cup {r.setWin} ELSE filled

\* the request goes to the first worker that serves none
Free(w) == req[w].pc \in {"idle", "done"}
FreeWorker ==
    IF \E w \in Workers : Free(w)
    THEN CHOOSE w \in Workers : Free(w) /\ \A v \in Workers : Free(v) => w <= v
    ELSE 0

\* weatherHandler answering a preflight request: 204, GetWeather not called
Preflight(w) ==
    /\ w = FreeWorker
    /\ calls < MaxCalls
    /\ calls' = calls + 1
    /\ req' = [Live EXCEPT ![w] =
                 [IdleReq EXCEPT !.method = "OPTIONS", !.pc = "done",
                                 !.status = 204]]
    /\ UNCHANGED << now, ticks, rdb, env, servers, cacheClient, filled, pureVars >>

\* weatherHandler up to GetWeather's validation and normalisation
StartCall(w, city) ==
    /\ w = FreeWorker
    /\ calls < MaxCalls
    /\ calls' = calls + 1
    /\ UNCHANGED << now, ticks, rdb, env, servers, cacheClient, pureVars >>
    /\ LET cityKey == CityKey(city)
           r == [IdleReq EXCEPT !.method = "GET", !.city = city]
       IN  IF BlankCity(city)
           THEN Finish(w, r, ZeroResp, ErrCityRequired)
           ELSE /\ req' = [Live EXCEPT ![w] =
                             [r EXCEPT !.cityKey = cityKey,
                                       !.pc = IF cacheClient THEN "cacheGet"
                                              ELSE "resolve"]]
                /\ filled' = filled

\* what the store holds for the key at the time of the Get
Saw(store, key, unix, fault) ==
    IF fault THEN "fault"
    ELSE IF key \in DOMAIN store /\ unix < store[key].exp THEN "present"
    ELSE "absent"

Continue(class) == [return |-> FALSE, class |-> class, resp |-> ZeroResp, err |-> NoError]

\* faulty variant of CacheCheck: a store error is returned to the caller
CacheCheck_errorFails(got) ==
    IF got.err
    THEN [return |-> TRUE, class |-> "error", resp |-> ZeroResp, err |-> ErrCache]
    ELSE IF ~got.data.nil
    THEN LET u == Unmarshal(got.data.bytes)
         IN  IF u.ok
             THEN [return |-> TRUE, class |-> "hit", resp |-> u.resp, err |-> NoError]
             ELSE Continue("corrupt")
    ELSE Continue("miss")

\* faulty variant of CacheCheck: bytes that do not decode fail the request
CacheCheck_corruptFails(got) ==
    IF got.err THEN Continue("error")
    ELSE IF ~got.data.nil
    THEN LET u == Unmarshal(got.data.bytes)
         IN  IF u.ok
             THEN [return |-> TRUE, class |-> "hit", resp |-> u.resp, err |-> NoError]
             ELSE [return |-> TRUE, class |-> "corrupt", resp |-> ZeroResp,
                   err |-> ErrDecode]
    ELSE Continue("miss")

\* the cache check of GetWeather: a store error is logged and the call goes
\* on; bytes that decode are returned at once; bytes that do not decode and
\* nil let the call go on
CacheCheck(got) ==
    IF got.err THEN Continue("error")
    ELSE IF ~got.data.nil
    THEN LET u == Unmarshal(got.data.bytes)
         IN  IF u.ok
             THEN [return |-> TRUE, class |-> "hit", resp |-> u.resp, err |-> NoError]
             ELSE Continue("corrupt")
    ELSE Continue("miss")

\* cacheClient.Get and the check of what it returned
CacheGet(w, fault) ==
    /\ req[w].pc = "cacheGet"
    /\ UNCHANGED << now, ticks, rdb, env, servers, cacheClient, calls, pureVars >>
    /\ LET key == buildKey(req[w].cityKey, Now, LocalOffset)
           got == ClientGet(rdb, req[w].cityKey, Now, fault)
           chk == CacheCheck(got)
           win == << req[w].cityKey, WindowIndex(Now, LocalOffset) >>
           r   == [req[w] EXCEPT !.get = chk.class, !.getRet = got,
                                 !.getSaw = Saw(rdb, key, now, fault),
                                 !.sawVal = IF key \in DOMAIN rdb THEN rdb[key].val
                                            ELSE Text(""),
                                 !.getKey = key, !.getWin = win,
                                 !.prior = win \in filled]
       IN  IF chk.return
           THEN Finish(w, r, chk.resp, chk.err)
           ELSE /\ req' = [Live EXCEPT ![w] = [r EXCEPT !.pc = "resolve"]]
                /\ filled' = filled

\* readCities and the lookup of the city's coordinates
Resolve(w, citiesFile) ==
    /\ req[w].pc = "resolve"
    /\ UNCHANGED << now, ticks, rdb, env, servers, cacheClient, calls, pureVars >>
    /\ LET rc == readCities(citiesFile)
           r  == [req[w] EXCEPT !.resolved = TRUE, !.citiesFile = citiesFile]
       IN  IF rc.err
           THEN Finish(w, r, ZeroResp, ErrCitiesUnavailable)
           ELSE IF ~Lookup(rc.cities, r.cityKey).ok
           THEN Finish(w, r, ZeroResp, ErrCityNotFound)
           ELSE /\ req' = [Live EXCEPT ![w] = [r EXCEPT !.pc = "fetch"]]
                /\ filled' = filled

\* the exchange with Open-Meteo, the decoding and the assembly of out
Fetch(w, response, codesFile) ==
    /\ req[w].pc = "fetch"
    /\ UNCHANGED << now, ticks, rdb, env, servers, cacheClient, calls, pureVars >>
    /\ LET f    == Fetched(req[w].city, response, codesFile)
           r    == [req[w] EXCEPT !.upstream = @ + 1, !.response = response]
       IN  IF f.err # NoError
           THEN Finish(w, r, ZeroResp, f.err)
           ELSE IF cacheClient
           THEN /\ req' = [Live EXCEPT ![w] =
                             [r EXCEPT !.out = f.resp, !.pc = "cacheSet"]]
                /\ filled' = filled
           ELSE Finish(w, r, f.resp, NoError)

\* faulty variant of AfterSet: a failed Set fails the request
AfterSet_errorFails(out, setErr) ==
    IF setErr THEN [resp |-> ZeroResp, err |-> ErrUpstreamRequest]
    ELSE [resp |-> out, err |-> NoError]

\* what GetWeather returns after the Set: out, whether the Set failed or not
AfterSet(out, setErr) == [resp |-> out, err |-> NoError]

\* cacheClient.Set of the assembled result
CacheSet(w, fault) ==
    /\ req[w].pc = "cacheSet"
    /\ UNCHANGED << now, ticks, env, servers, cacheClient, calls, pureVars >>
    /\ LET st  == ClientSet(rdb, req[w].cityKey, Now, Marshal(req[w].out), fault)
           ret == AfterSet(req[w].out, st.err)
           r   == [req[w] EXCEPT
                     !.set = IF st.err THEN "error" ELSE "ok",
                     !.setKey = buildKey(req[w].cityKey, Now, LocalOffset),
                     !.setWin = << req[w].cityKey, WindowIndex(Now, LocalOffset) >>]
       IN  /\ rdb' = st.store
           /\ Finish(w, r, ret.resp, ret.err)

\* time passes; Redis drops the entries whose TTL has run out
Tick ==
    /\ ticks < MaxTicks
    /\ ticks' = ticks + 1
    /\ now' = now + TickStep
    /\ rdb' = [k \in {k \in DOMAIN rdb : now' < rdb[k].exp} |-> rdb[k]]
    /\ req' = Live
    /\ UNCHANGED << env, servers, cacheClient, calls, filled, pureVars >>

Next ==
    \/ \E w \in Workers : Preflight(w)
    \/ \E w \in Workers, c \in InputCities : StartCall(w, c)
    \/ \E w \in Workers, fault \in BOOLEAN : CacheGet(w, fault)
    \/ \E w \in Workers, f \in CitiesFiles : Resolve(w, f)
    \/ \E w \in Workers, r \in Responses :
          \E f \in IF r.body.valid THEN CodesFiles ELSE {"ok"} : Fetch(w, r, f)
    \/ \E w \in Workers, fault \in BOOLEAN : CacheSet(w, fault)
    \/ Tick

Spec == Init /\ [][Next]_vars

\* the server starts against a Redis in which another client has left, under
\* the key of the current window, bytes that are no WeatherResp
ForeignKeys == {mumbai}

InitEnv ==
    /\ now = StartTime
    /\ ticks = 0
    /\ \E c \in ForeignKeys :
          rdb = ClientSet([k \in {} |-> [val |-> Text(""), exp |-> 0]],
                          c, Now, Garbage, FALSE).store
    /\ env = [REDIS_ADDR |-> RemoteAddr, REDIS_PASSWORD |-> Secret]
    /\ servers = {RemoteServer}
    /\ cacheClient \in main(env, servers)
    /\ req = [w \in Workers |-> IdleReq]
    /\ calls = 0
    /\ filled = {}
    /\ kin = KeyIdle
    /\ kout = << >>
    /\ din = DirIdle /\ dout = NotRun
    /\ nin = NrmIdle /\ nout = NotRun
    /\ jin = ZeroResp /\ jout = NotRun
    /\ tin = TimedIdle /\ tout = NotRun

SpecEnv == InitEnv /\ [][Next]_vars

\* ------------------------------------------------------------------------
\* the start of the server: any environment, any Redis
\* ------------------------------------------------------------------------
Envs == [REDIS_ADDR : {"", RemoteAddr}, REDIS_PASSWORD : {"", Secret}]
ServerSets == {NoServers, {LocalServer}, {RemoteServer}}

BootCities == {mumbai, nowhereville, blank}
BootResponses ==
    { [transport |-> "ok", status |-> 503, body |-> Text("Service Unavailable")],
      [transport |-> "ok", status |-> 200, body |-> UpstreamObj(27, 3)] }

InitBoot ==
    /\ now = StartTime
    /\ ticks = 0
    /\ rdb = [k \in {} |-> [val |-> Text(""), exp |-> 0]]
    /\ env \in Envs
    /\ servers \in ServerSets
    /\ cacheClient \in main(env, servers)
    /\ req = [w \in Workers |-> IdleReq]
    /\ calls = 0
    /\ filled = {}
    /\ kin = KeyIdle
    /\ kout = << >>
    /\ din = DirIdle /\ dout = NotRun
    /\ nin = NrmIdle /\ nout = NotRun
    /\ jin = ZeroResp /\ jout = NotRun
    /\ tin = TimedIdle /\ tout = NotRun

\* the requests of Next on a store and on data files that do not fail
BootNext ==
    \/ \E w \in Workers : Preflight(w)
    \/ \E w \in Workers, city \in BootCities : StartCall(w, city)
    \/ \E w \in Workers : CacheGet(w, FALSE)
    \/ \E w \in Workers : Resolve(w, "ok")
    \/ \E w \in Workers, r \in BootResponses : Fetch(w, r, "ok")
    \/ \E w \in Workers : CacheSet(w, FALSE)
    \/ Tick

SpecBoot == InitBoot /\ [][BootNext]_vars

\* ------------------------------------------------------------------------
\* the key computation on its own: any city, two times, any Location
\* ------------------------------------------------------------------------
KeyMinutes == 50

KeyCities  == {mumbai, chennaiIndia}
KeyOffsets == {0, 330 * 60, 345 * 60, 0 - 210 * 60}
KeyBase    == Date(20364, 23, 20, 0, 0, 0).unix
KeyTimes   ==
    { [unix |-> KeyBase + m * 60 + f[1], nsec |-> f[2]] :
        m \in 0..KeyMinutes, f \in { << 0, 0 >>, << 59, 999999999 >> } }

KeyInit ==
    /\ now = StartTime
    /\ ticks = 0
    /\ rdb = [k \in {} |-> [val |-> Text(""), exp |-> 0]]
    /\ env = NoEnv /\ servers = NoServers
    /\ cacheClient \in main(env, servers)
    /\ req = [w \in Workers |-> IdleReq]
    /\ calls = 0
    /\ filled = {}
    /\ kin \in [city : KeyCities, t1 : KeyTimes, t2 : KeyTimes, off : KeyOffsets]
    /\ kout = << >>
    /\ din = DirIdle /\ dout = NotRun
    /\ nin = NrmIdle /\ nout = NotRun
    /\ jin = ZeroResp /\ jout = NotRun
    /\ tin = TimedIdle /\ tout = NotRun

\* buildKey(city, t1) and buildKey(city, t2)
KeyStep ==
    /\ kout = << >>
    /\ kout' = << buildKey(kin.city, kin.t1, kin.off),
                  buildKey(kin.city, kin.t2, kin.off) >>
    /\ UNCHANGED << kin, sysVars, dirVars, nrmVars, tripVars, timedVars >>

KeyNext == KeyStep

SpecKey == KeyInit /\ [][KeyNext]_vars

\* ------------------------------------------------------------------------
\* the server without a cache (server/main.go on pkg/weather): one request,
\* any state of the two data files, any answer of the upstream provider
\* ------------------------------------------------------------------------
DirectCities ==
    {mumbai, MumbaiPadded, MUMBAI, TabMumbai, chennai, chennaiIndia, ChennaiTN,
     NewDelhi, new_delhi, nowhereville, nowhereIndia, blank, empty}
DirectCitiesFiles == {"ok", "unreadable", "empty", "corrupt", "noEntries"}
DirectCodesFiles  == {"ok", "unreadable", "corrupt"}
DirectCodes       == {0 - 1, 0, 1, 2, 3, 17, 61, 99}
DirectResponses ==
    { [transport |-> "error", status |-> 0,   body |-> Text("")],
      [transport |-> "ok",    status |-> 503, body |-> Text("Service Unavailable")],
      [transport |-> "ok",    status |-> 404, body |-> Text("Not Found")],
      [transport |-> "ok",    status |-> 500, body |-> UpstreamObj(20, 2)],
      [transport |-> "ok",    status |-> 201, body |-> UpstreamObj(20, 2)],
      [transport |-> "ok",    status |-> 200, body |-> Garbage] }
    \cup { [transport |-> "ok", status |-> 200, body |-> UpstreamObj(27, c)] :
             c \in DirectCodes }

DirectInit ==
    /\ now = StartTime
    /\ ticks = 0
    /\ rdb = [k \in {} |-> [val |-> Text(""), exp |-> 0]]
    /\ env = NoEnv /\ servers = NoServers
    /\ cacheClient \in main(env, servers)
    /\ req = [w \in Workers |-> IdleReq]
    /\ calls = 0
    /\ filled = {}
    /\ kin = KeyIdle /\ kout = << >>
    /\ nin = NrmIdle /\ nout = NotRun
    /\ jin = ZeroResp /\ jout = NotRun
    /\ tin = TimedIdle /\ tout = NotRun
    /\ din \in [method : {"GET"}, city : DirectCities,
                 citiesFile : DirectCitiesFiles, response : DirectResponses,
                 codesFile : DirectCodesFiles]
               \cup {[DirIdle EXCEPT !.method = "OPTIONS"]}
    /\ dout = NotRun

\* weatherHandler: a preflight request is answered 204; any other request
\* goes to GetWeather and its result is mapped to the reply
ServeDirect ==
    /\ ~dout.done
    /\ UNCHANGED << din, sysVars, keyVars, nrmVars, tripVars, timedVars >>
    /\ IF din.method = "OPTIONS"
       THEN dout' = [done |-> TRUE, called |-> FALSE, cityKey |-> << >>,
                     loaded |-> FALSE,
                     lookup |-> [ok |-> FALSE, coords |-> << 0, 0 >>],
                     ret |-> [resp |-> ZeroResp, err |-> NoError],
                     reply |-> [status |-> 204, body |-> Text("")]]
       ELSE LET rc  == readCities(din.citiesFile)
                ret == GetWeatherDirect(din.city, din.citiesFile,
                                        din.response, din.codesFile)
            IN  dout' = [done |-> TRUE, called |-> TRUE,
                         cityKey |-> CityKey(din.city),
                         loaded  |-> ~BlankCity(din.city) /\ ~rc.err,
                         lookup  |-> Lookup(rc.cities, CityKey(din.city)),
                         ret     |-> ret,
                         reply   |-> HandlerReply(ret.resp, ret.err)]

DirectNext == ServeDirect

SpecDirect == DirectInit /\ [][DirectNext]_vars

\* ------------------------------------------------------------------------
\* the normal form of a city on its own: two inputs, one point in time
\* ------------------------------------------------------------------------
NormTimes == { [unix |-> StartTime, nsec |-> 0],
               [unix |-> StartTime + TickStep, nsec |-> 0] }

NormInit ==
    /\ now = StartTime
    /\ ticks = 0
    /\ rdb = [k \in {} |-> [val |-> Text(""), exp |-> 0]]
    /\ env = NoEnv /\ servers = NoServers
    /\ cacheClient \in main(env, servers)
    /\ req = [w \in Workers |-> IdleReq]
    /\ calls = 0
    /\ filled = {}
    /\ kin = KeyIdle /\ kout = << >>
    /\ din = DirIdle /\ dout = NotRun
    /\ nin \in [city1 : DirectCities, city2 : DirectCities, at : NormTimes]
    /\ nout = NotRun
    /\ jin = ZeroResp /\ jout = NotRun
    /\ tin = TimedIdle /\ tout = NotRun

\* GetWeather's cityKey for either input, the cache key built from it and
\* what the lookup in the location table gives for it
NormStep ==
    /\ ~nout.done
    /\ UNCHANGED << nin, sysVars, keyVars, dirVars, tripVars, timedVars >>
    /\ LET k1 == CityKey(nin.city1)
           k2 == CityKey(nin.city2)
           \* the store after a call for city1 has Set its result at nin.at,
           \* and what a Get for city2 finds in it at that time
           st  == ClientSet([k \in {} |-> [val |-> Text(""), exp |-> 0]],
                            k1, nin.at, Marshal(ZeroResp), FALSE).store
           got == ClientGet(st, k2, nin.at, FALSE)
       IN  nout' = [done |-> TRUE, key1 |-> k1, key2 |-> k2,
                    cacheKey1 |-> buildKey(k1, nin.at, LocalOffset),
                    cacheKey2 |-> buildKey(k2, nin.at, LocalOffset),
                    lookup1 |-> Lookup(CitiesTable, k1),
                    lookup2 |-> Lookup(CitiesTable, k2),
                    served2 |-> ~got.data.nil]

NormNext == NormStep

SpecNorm == NormInit /\ [][NormNext]_vars

\* ------------------------------------------------------------------------
\* the cache payload on its own: a WeatherResp is encoded and decoded again
\* ------------------------------------------------------------------------
chennaiBadByte == chennai \o << ",", InvalidByte >>

TripResps ==
    [City        : {mumbai, MumbaiPadded, chennaiIndia, chennaiBadByte},
     TempC       : {0 - 3, 0, 27},
     Description : {<< "Overcast" >>, << "Unknown code ", 17 >>},
     Timestamp   : {"", "2025-10-03T10:00"},
     Lat         : {0, 1900},
     Lon         : {0, 7300},
     WeatherCode : {0, 3},
     Humidity    : {0, 70},
     Rain        : {0, 2}]

TripInit ==
    /\ now = StartTime
    /\ ticks = 0
    /\ rdb = [k \in {} |-> [val |-> Text(""), exp |-> 0]]
    /\ env = NoEnv /\ servers = NoServers
    /\ cacheClient \in main(env, servers)
    /\ req = [w \in Workers |-> IdleReq]
    /\ calls = 0
    /\ filled = {}
    /\ kin = KeyIdle /\ kout = << >>
    /\ din = DirIdle /\ dout = NotRun
    /\ nin = NrmIdle /\ nout = NotRun
    /\ jin \in TripResps
    /\ jout = NotRun
    /\ tin = TimedIdle /\ tout = NotRun

\* json.Marshal of the result before the Set, json.Unmarshal of the bytes
\* after the Get
TripStep ==
    /\ ~jout.done
    /\ UNCHANGED << jin, sysVars, keyVars, dirVars, nrmVars, timedVars >>
    /\ LET payload == Marshal(jin)
           back    == Unmarshal(payload)
       IN  jout' = [done |-> TRUE, payload |-> payload,
                    ok |-> back.ok, resp |-> back.resp]

TripNext == TripStep

SpecTrip == TripInit /\ [][TripNext]_vars

\* ------------------------------------------------------------------------
\* one request whose context can be done while the upstream call runs
\* ------------------------------------------------------------------------
NoCancel == 4 * HandlerTimeout

TimedCities    == {mumbai, nowhereville}
TimedResponses ==
    { [transport |-> "error", status |-> 0,   body |-> Text("")],
      [transport |-> "ok",    status |-> 503, body |-> Text("Service Unavailable")],
      [transport |-> "ok",    status |-> 200, body |-> Garbage],
      [transport |-> "ok",    status |-> 200, body |-> UpstreamObj(27, 3)] }
StartTimes     == {0, 6}
HeaderDelays   == {1, 5, 12}
BodyDelays     == {0, 3}
CancelTimes    == {2, 8, 14, NoCancel}

TimedInit ==
    /\ now = StartTime
    /\ ticks = 0
    /\ rdb = [k \in {} |-> [val |-> Text(""), exp |-> 0]]
    /\ env = NoEnv /\ servers = NoServers
    /\ cacheClient \in main(env, servers)
    /\ req = [w \in Workers |-> IdleReq]
    /\ calls = 0
    /\ filled = {}
    /\ kin = KeyIdle /\ kout = << >>
    /\ din = DirIdle /\ dout = NotRun
    /\ nin = NrmIdle /\ nout = NotRun
    /\ jin = ZeroResp /\ jout = NotRun
    /\ tin \in [city : TimedCities, response : TimedResponses,
                 startAt : StartTimes, headersAfter : HeaderDelays,
                 bodyAfter : BodyDelays, cancelAt : CancelTimes]
    /\ tout = NotRun

\* weatherHandler and GetWeather of pkg/weather on a request whose upstream
\* exchange takes time: the exchange starts at startAt, once the city is
\* resolved, and GetWeather goes on with what Do and the body gave it
ServeTimed ==
    /\ ~tout.done
    /\ UNCHANGED << tin, sysVars, keyVars, dirVars, nrmVars, tripVars >>
    /\ LET found == Lookup(readCities("ok").cities, CityKey(tin.city)).ok
       IN  \E x \in Do(tin.response, tin.startAt, tin.headersAfter,
                        tin.bodyAfter, CtxDoneAt(tin.cancelAt)) :
              LET ret == GetWeatherDirect(tin.city, "ok", x.response, "ok")
              IN  tout' = [done       |-> TRUE,
                           upstream   |-> found,
                           ret        |-> ret,
                           returnedAt |-> IF found THEN x.at ELSE tin.startAt,
                           reply      |-> HandlerReply(ret.resp, ret.err)]

TimedNext == ServeTimed

SpecCancel == TimedInit /\ [][TimedNext]_vars

\* C3: two timestamps in the same 15-minute wall-clock window give, for the
\* same city, the same cache key, whatever their seconds and sub-seconds.
C3_SameWindowSameKey ==
    (kout # << >> /\ SameWindow(kin.t1, kin.t2, kin.off)) => kout[1] = kout[2]

\* C3 witness: keys computed for minute 0 second 0 and minute 14 second 59
\* of one hour, in a Location that is not UTC
C3_Witness ==
    /\ kout # << >>
    /\ kin.off # 0
    /\ SameWindow(kin.t1, kin.t2, kin.off)
    /\ Minute(kin.t1, kin.off) = 0  /\ kin.t1.nsec = 0
    /\ Minute(kin.t2, kin.off) = 14 /\ kin.t2.nsec # 0
    /\ kout[1] = kout[2]

\* C4: a timestamp in a window and one in the window right after it give,
\* for the same city, different cache keys.
C4_NextWindowOtherKey ==
    (kout # << >> /\ WindowIndex(kin.t2, kin.off) = WindowIndex(kin.t1, kin.off) + 1)
        => kout[1] # kout[2]

\* C4 witness: the last second of a day and the first of the next
C4_Witness ==
    /\ kout # << >>
    /\ WindowIndex(kin.t2, kin.off) = WindowIndex(kin.t1, kin.off) + 1
    /\ Day(kin.t2, kin.off) = Day(kin.t1, kin.off) + 1
    /\ kin.t2.unix = kin.t1.unix + 1
    /\ kout[1] # kout[2]

\* ------------------------------------------------------------------------
\* properties of the running server
\* ------------------------------------------------------------------------
\* worker w has just answered a GET request
Done(w) == req[w].pc = "done" /\ req[w].method = "GET"

\* what GetWeather returned to the handler
Returned(w) == [resp |-> req[w].out, err |-> req[w].err]

\* what the pipeline without a cache returns on the inputs worker w consumed,
\* for some state of the weather-code file
DirectResults(w) ==
    { GetWeatherDirect(req[w].city, req[w].citiesFile, req[w].response, f) :
        f \in CodesFiles }

IsBlank(city) == \A i \in 1..Len(city) : city[i] \in {" ", "\t"}

\* C1: when the store holds for the key of the current window a payload that
\* decodes, GetWeather returns the decoded payload and the call makes no
\* upstream call, no resolver lookup and no cache Set.
C1_HitReturnsCached ==
    \A w \in Workers :
        (Done(w) /\ req[w].getSaw = "present" /\ Unmarshal(req[w].sawVal).ok)
            => /\ Returned(w) = [resp |-> Unmarshal(req[w].sawVal).resp,
                                 err  |-> NoError]
               /\ req[w].upstream = 0
               /\ ~req[w].resolved
               /\ req[w].set = "none"

\* C1 witness: a call answered 200 from an entry another call stored
C1_Witness ==
    \E w \in Workers :
        /\ Done(w) /\ req[w].getSaw = "present" /\ Unmarshal(req[w].sawVal).ok
        /\ req[w].status = 200
        /\ req[w].out.TempC = 31
        /\ req[w].upstream = 0

\* C2: a call whose Get falls in a window in which an earlier call for the
\* same city, already returned, made its one upstream call and stored the
\* result, is a cache hit and makes no upstream call of its own, as long as
\* its Get does not fail.
C2_SecondCallHits ==
    \A w \in Workers :
        (Done(w) /\ req[w].prior /\ req[w].getSaw # "fault")
            => /\ req[w].get = "hit"
               /\ req[w].upstream = 0
               /\ req[w].err = NoError

\* C2 witness: the second call comes seven and a half minutes after the
\* first, in the same window, and for the same city written differently
C2_Witness ==
    \E w \in Workers :
        /\ Done(w) /\ req[w].prior /\ req[w].get = "hit"
        /\ ticks = 1
        /\ req[w].city = MumbaiPadded
        /\ req[w].out.City = mumbai

\* C5: when the store's Get fails, the call still resolves the city and
\* returns what the pipeline without a cache returns on the same inputs, so
\* it succeeds whenever resolver and upstream do.
C5_GetErrorDegrades ==
    \A w \in Workers :
        (Done(w) /\ req[w].getSaw = "fault")
            => /\ req[w].resolved
               /\ Returned(w) \in DirectResults(w)
               /\ req[w].err # ErrCache

\* C5 witness: a call whose Get failed, answered 200 after one upstream call
C5_Witness ==
    \E w \in Workers :
        /\ Done(w) /\ req[w].getSaw = "fault"
        /\ req[w].upstream = 1 /\ req[w].status = 200

\* C6: when the Set fails after a successful fetch, GetWeather returns the
\* assembled result, the one it returns when the Set succeeds, and no error.
C6_SetErrorKeepsResult ==
    \A w \in Workers :
        (Done(w) /\ req[w].set = "error")
            => /\ req[w].err = NoError
               /\ \E f \in CodesFiles :
                     LET fr == Fetched(req[w].city, req[w].response, f)
                     IN  fr.err = NoError /\ req[w].out = fr.resp
               /\ req[w].status = 200

\* C6 witness: a call whose Set failed and that left nothing in the store
C6_Witness ==
    \E w \in Workers :
        /\ Done(w) /\ req[w].set = "error"
        /\ req[w].setKey \notin DOMAIN rdb
        /\ req[w].out.TempC = 27

\* C7: Client.Get reports a key the store does not hold as (nil, nil) and a
\* failed exchange as an error; a call that misses returns what the pipeline
\* without a cache returns.
C7_AbsentIsNotAnError ==
    \A w \in Workers :
        /\ req[w].getSaw = "absent"
              => req[w].getRet = [data |-> NilBytes, err |-> FALSE]
        /\ req[w].getSaw = "fault" => req[w].getRet.err
        /\ (Done(w) /\ req[w].getSaw = "absent")
              => Returned(w) \in DirectResults(w)

\* C7 witness: one worker has missed and been answered 200 while the other
\* waits after a Get that failed
C7_Witness ==
    \E w, v \in Workers :
        /\ Done(w) /\ req[w].getSaw = "absent" /\ req[w].status = 200
        /\ req[v].getSaw = "fault" /\ req[v].pc = "resolve"

\* C8: when the store holds for the key bytes that do not decode into a
\* WeatherResp, the call goes on to the resolver and the upstream fetch and
\* returns what the pipeline without a cache returns.
C8_CorruptIsMiss ==
    \A w \in Workers :
        (Done(w) /\ req[w].getSaw = "present" /\ ~Unmarshal(req[w].sawVal).ok)
            => /\ req[w].resolved
               /\ Returned(w) \in DirectResults(w)

\* C8 witness: a call that found such bytes, fetched, and replaced them
C8_Witness ==
    \E w \in Workers :
        /\ Done(w) /\ req[w].getSaw = "present" /\ ~Unmarshal(req[w].sawVal).ok
        /\ req[w].upstream = 1 /\ req[w].status = 200
        /\ req[w].set = "ok" /\ rdb[req[w].setKey].val = Marshal(req[w].out)

\* C9: a call with an empty or whitespace-only city returns the "city name
\* is required" error without a cache Get, a resolver lookup, an upstream
\* call or a cache Set.
C9_BlankCityFirst ==
    \A w \in Workers :
        (req[w].method = "GET" /\ IsBlank(req[w].city))
            => /\ req[w].pc = "done"
               /\ req[w].err = ErrCityRequired
               /\ req[w].getSaw = "none"
               /\ ~req[w].resolved
               /\ req[w].upstream = 0
               /\ req[w].set = "none"

\* C9 witness: a whitespace-only city refused while the cache is configured
C9_Witness ==
    \E w \in Workers :
        /\ Done(w) /\ req[w].city = blank /\ cacheClient
        /\ req[w].err = ErrCityRequired

\* C10: the handler answers 200 with the result when GetWeather succeeds,
\* 404 with a JSON error body exactly when it fails with "city not found",
\* and 500 with a JSON error body for every other failure.
C10_StatusMapping ==
    \A w \in Workers :
        Done(w) =>
            /\ req[w].err = NoError
                  => req[w].status = 200 /\ req[w].body = Marshal(req[w].out)
            /\ req[w].err.msg = "city not found"
                  => /\ req[w].status = 404
                     /\ req[w].body = ErrorBody("city not found")
            /\ req[w].err.msg \notin {"", "city not found"}
                  => /\ req[w].status = 500
                     /\ req[w].body = ErrorBody("upstream or server error")

\* C10 witness: a city the table lacks is answered 404 with the error body
C10_Witness ==
    \E w \in Workers :
        /\ Done(w) /\ req[w].city = nowhereville
        /\ req[w].citiesFile = "ok"
        /\ req[w].status = 404
        /\ req[w].body.obj = [error |-> "city not found"]

\* ------------------------------------------------------------------------
\* properties of the server without a cache and of the normal form
\* ------------------------------------------------------------------------
\* the request was handed to GetWeather
Served == dout.done /\ dout.called

\* GetWeather got as far as the exchange with the upstream provider
Fetching == Served /\ dout.loaded /\ dout.lookup.ok

\* GetWeather returned a result
Success == Served /\ dout.ret.err = NoError

\* key is known followed by a comma and anything
CommaForm(known, key) ==
    /\ Len(key) > Len(known)
    /\ SubSeq(key, 1, Len(known)) = known
    /\ key[Len(known) + 1] = ","

\* the input without the white space around it
Core(s) ==
    LET solid == {i \in 1..Len(s) : s[i] \notin {" ", "\t"}}
    IN  IF solid = {} THEN << >>
        ELSE SubSeq(s, CHOOSE i \in solid : \A j \in solid : i <= j,
                       CHOOSE i \in solid : \A j \in solid : j <= i)

\* equal but for the case of letters
EqualFold(a, b) ==
    /\ Len(a) = Len(b)
    /\ \A i \in 1..Len(a) :
          \/ a[i] = b[i]
          \/ \E j \in 1..Len(Upper) : {a[i], b[i]} = {Upper[j], Lower[j]}

\* C11: a request whose city is blank is answered with status 400.
C11_BlankIs400 ==
    (Served /\ IsBlank(din.city)) => dout.reply.status = 400

\* C12: the lookup tries the normalised city as it is and then the part
\* before its first comma: a key of the table resolves to its own
\* coordinates, a key of the table followed by a comma and anything resolves
\* to that key's coordinates, and GetWeather fails with "city not found"
\* exactly when the table was loaded and the input is of neither form.
C12_LookupOrder ==
    (Served /\ dout.loaded) =>
        LET key == dout.cityKey
        IN  /\ key \in DOMAIN CitiesTable
                  => dout.lookup = [ok |-> TRUE, coords |-> CitiesTable[key]]
            /\ \A known \in DOMAIN CitiesTable :
                  CommaForm(known, key)
                      => dout.lookup = [ok |-> TRUE, coords |-> CitiesTable[known]]
            /\ dout.ret.err = ErrCityNotFound
                  <=> /\ key \notin DOMAIN CitiesTable
                      /\ ~\E known \in DOMAIN CitiesTable : CommaForm(known, key)

\* C12 witness: "chennai, india" resolves to the coordinates of chennai
C12_Witness ==
    /\ Served /\ dout.loaded
    /\ din.city = chennaiIndia
    /\ dout.cityKey \notin DOMAIN CitiesTable
    /\ dout.lookup = [ok |-> TRUE, coords |-> CitiesTable[chennai]]
    /\ dout.ret.err # ErrCityNotFound

\* C13: two inputs that are equal but for the case of letters and the white
\* space around them have the same normal form, the same cache key at a given
\* time and the same lookup result.
C13_CaseAndPaddingIgnored ==
    (nout.done /\ EqualFold(Core(nin.city1), Core(nin.city2)))
        => /\ nout.key1 = nout.key2
           /\ nout.cacheKey1 = nout.cacheKey2
           /\ nout.lookup1 = nout.lookup2

\* C13 witness: "  Mumbai  " and "MUMBAI" both become "mumbai" and resolve
C13_Witness ==
    /\ nout.done
    /\ nin.city1 = MumbaiPadded /\ nin.city2 = MUMBAI
    /\ nout.key1 = mumbai /\ nout.key2 = mumbai
    /\ nout.cacheKey1 = nout.cacheKey2
    /\ nout.lookup1.ok /\ nout.lookup2.ok

\* C14: the city key GetWeather looks up and caches under is the input
\* lowercased, trimmed and with every space inside replaced by an underscore.
C14_SpacesBecomeUnderscores ==
    (Served /\ ~IsBlank(din.city))
        => /\ dout.cityKey = ReplaceSpaces(ToLower(Core(din.city)))
           /\ (dout.loaded /\ ReplaceSpaces(ToLower(Core(din.city))) \in DOMAIN CitiesTable)
                  => dout.lookup.ok

C16_DescriptionNeverFails ==
    (Fetching /\ din.response.transport = "ok" /\ din.response.status = 200
              /\ din.response.body.valid) =>
        LET code == din.response.body.obj.weather_code
            desc == dout.ret.resp.Description
        IN  /\ dout.ret.err = NoError
            /\ desc # << >> /\ desc[1] # ""
            /\ code \notin DOMAIN loadWeatherCodes(din.codesFile)
                  => desc = << "Unknown code ", code >>

\* C16 witness: code 17, which the file lacks, is described as
\* "Unknown code 17" in a reply answered 200
C16_Witness ==
    /\ Fetching /\ din.codesFile = "ok"
    /\ din.response.status = 200 /\ din.response.body.valid
    /\ din.response.body.obj.weather_code = 17
    /\ dout.ret.resp.Description = << "Unknown code ", 17 >>
    /\ dout.reply.status = 200

\* C17: when the weather-code file cannot be read or does not parse, codes
\* 0, 1, 2 and 3 are still described as clear sky, mainly clear, partly
\* cloudy and overcast.
C17_FallbackOnAnyFailure ==
    (Success /\ din.codesFile \in {"unreadable", "corrupt"}
             /\ din.response.body.obj.weather_code \in {0, 1, 2, 3})
        => dout.ret.resp.Description
              = (CASE din.response.body.obj.weather_code = 0 -> << "Clear sky" >>
                   [] din.response.body.obj.weather_code = 1 -> << "Mainly clear" >>
                   [] din.response.body.obj.weather_code = 2 -> << "Partly cloudy" >>
                   [] OTHER -> << "Overcast" >>)

\* C18: an answer of the upstream provider with a status outside 200..299
\* makes GetWeather fail with the "upstream error" that carries the status,
\* which is neither the transport failure nor the decode failure; the
\* handler answers 500 and nothing of the body reaches the result.
C18_UpstreamStatusError ==
    (Fetching /\ din.response.transport = "ok"
              /\ din.response.status \notin 200..299) =>
        /\ dout.ret.err.msg = "upstream error"
        /\ dout.ret.err.detail[1] = din.response.status
        /\ dout.ret.err \notin {ErrUpstreamRequest, ErrDecode}
        /\ dout.ret.resp = ZeroResp
        /\ dout.reply.status = 500

\* C18 witness: a 500 of the provider whose body is a well-formed forecast
C18_Witness ==
    /\ Fetching
    /\ din.response.status = 500 /\ din.response.body.valid
    /\ dout.ret.err.detail[1] = 500
    /\ dout.ret.resp.TempC = 0
    /\ dout.reply.status = 500

\* C19 as claimed: the city of every result GetWeather returns, fetched or
\* cached, is the input of the caller it is returned to.
C19_CityIsCallerInput ==
    \A w \in Workers :
        (Done(w) /\ req[w].err = NoError) => req[w].out.City = req[w].city

\* C19 as amended: the city of a result assembled from an upstream fetch is
\* the caller's input as supplied; the city of a result served from the
\* cache is the one stored in the entry, the input of the call that stored
\* it, which has the caller's normal form but need not be the caller's input.
C19_CityIsSuppliedOrStored ==
    \A w \in Workers :
        (Done(w) /\ req[w].err = NoError) =>
            /\ req[w].upstream = 1 => req[w].out.City = req[w].city
            /\ req[w].upstream = 0
                  => /\ req[w].get = "hit"
                     /\ req[w].out.City = Unmarshal(req[w].sawVal).resp.City
                     /\ EqualFold(Core(req[w].out.City), Core(req[w].city))

\* C19 witness: "mumbai" is answered from the entry "  Mumbai  " stored
C19_Witness ==
    \E w \in Workers :
        /\ Done(w) /\ req[w].err = NoError
        /\ req[w].upstream = 0 /\ req[w].get = "hit"
        /\ req[w].city = mumbai
        /\ req[w].out.City = MumbaiPadded

\* C20: the weather code of every result assembled from an upstream fetch is
\* the code the upstream provider reported.
C20_WeatherCodeIsUpstreams ==
    Success => dout.ret.resp.WeatherCode = din.response.body.obj.weather_code

\* ------------------------------------------------------------------------
\* properties of the cache payload, the store and the start of the server
\* ------------------------------------------------------------------------
\* C21 as claimed: any WeatherResp encoded to the cache payload and decoded
\* again equals the original in every field.
C21_RoundTripAny ==
    jout.done => (jout.ok /\ jout.resp = jin)

\* C21 as amended: a WeatherResp whose city is valid UTF-8, encoded to the
\* cache payload and decoded again, equals the original in every field, also
\* when latitude, longitude, humidity or rain are zero.
C21_RoundTripValidText ==
    (jout.done /\ \A i \in 1..Len(jin.City) : jin.City[i] # InvalidByte)
        => (jout.ok /\ jout.resp = jin)

\* C21 witness: a result with latitude, longitude, humidity and rain zero,
\* whose payload lacks lat and lon, comes back as it was
C21_Witness ==
    /\ jout.done
    /\ jin.Lat = 0 /\ jin.Lon = 0 /\ jin.Humidity = 0 /\ jin.Rain = 0
    /\ jin.City = MumbaiPadded
    /\ "lat" \notin DOMAIN jout.payload.obj
    /\ "rain" \in DOMAIN jout.payload.obj
    /\ jout.resp = jin

UsesCache(w) ==
    \/ req[w].pc \in {"cacheGet", "cacheSet"}
    \/ req[w].get # "none"
    \/ req[w].set # "none"

\* C23 (as stated): when REDIS_ADDR or REDIS_PASSWORD is not set, caching is
\* off and no call attempts a Get or a Set.
C23_AbsentDisablesCache ==
    (Getenv(env, "REDIS_ADDR") = "" \/ Getenv(env, "REDIS_PASSWORD") = "")
        => /\ ~cacheClient
           /\ \A w \in Workers : ~UsesCache(w)

\* C23 (amended): an unset address stands for localhost:6379 and an unset
\* credential for no password. When no server listens at the address, caching
\* is off; when one listens there and takes the credential, caching is on,
\* set or unset; and with caching off the server answers its requests and no
\* call attempts a Get or a Set or leaves anything in the store.
C23_FailedConnectDisablesCache ==
    LET addr == IF env.REDIS_ADDR = "" THEN "localhost:6379" ELSE env.REDIS_ADDR
    IN  /\ (\A s \in servers : s.addr # addr) => ~cacheClient
        /\ (\E s \in servers : s.addr = addr /\ s.requirepass = env.REDIS_PASSWORD)
              => cacheClient
        /\ ~cacheClient
              => /\ \A w \in Workers : ~UsesCache(w)
                 /\ DOMAIN rdb = {}
                 /\ \A w \in Workers :
                       (Done(w) /\ req[w].method = "GET")
                           => req[w].status \in {200, 404, 500}

\* C23 witness: nothing is set, nothing listens, and a request has been
\* answered with the weather without a Get or a Set
C23_Witness ==
    \E w \in Workers :
        /\ env = NoEnv /\ servers = NoServers /\ ~cacheClient
        /\ Done(w) /\ req[w].status = 200 /\ req[w].upstream = 1
        /\ ~UsesCache(w)

\* the reply to the request of din had the upstream provider answered r
ReplyHadUpstreamSent(r) ==
    LET ret == GetWeatherDirect(din.city, din.citiesFile, r, din.codesFile)
    IN  HandlerReply(ret.resp, ret.err)

FailureMessages == {"city not found", "upstream or server error"}

\* C24: the body of a failure response is one of the handler's fixed
\* messages, and a request that fails gets the same body under every other
\* upstream answer under which it fails too.
C24_FailureBodyIgnoresUpstream ==
    (Served /\ dout.reply.status >= 400)
        => /\ dout.reply.body.valid
           /\ dout.reply.body.obj.error \in FailureMessages
           /\ \A r \in DirectResponses :
                 ReplyHadUpstreamSent(r).status >= 400
                     => ReplyHadUpstreamSent(r).body = dout.reply.body

\* C24 witness: the upstream provider answered 503 with a body of its own,
\* the request failed, and it fails as well on an upstream answer with
\* another status and body
C24_Witness ==
    /\ Fetching
    /\ din.response.status = 503
    /\ din.response.body = Text("Service Unavailable")
    /\ dout.ret.err = ErrUpstreamStatus(503, "Service Unavailable")
    /\ dout.reply.status = 500
    /\ \E r \in DirectResponses :
          /\ r.status = 404 /\ r.body = Text("Not Found")
          /\ ReplyHadUpstreamSent(r) = dout.reply

\* worker w has missed, fetched and decoded, and is about to write the entry
Writer(w) == req[w].pc = "cacheSet"

\* two writers of one city in one window, both past their miss
ConcurrentWriters(v, w) ==
    /\ v # w
    /\ Writer(v) /\ Writer(w)
    /\ req[v].cityKey = req[w].cityKey
    /\ req[v].getWin = req[w].getWin

\* C25 (as stated): concurrent writers of one city in one window write the
\* same result.
C25_WritersAgree ==
    \A v, w \in Workers :
        ConcurrentWriters(v, w) => req[v].out = req[w].out

\* C25 (amended): each concurrent writer has made its own upstream call and
\* writes the result of its own city string, upstream answer and code table;
\* writers that agree on these write the same result; and after a Set the
\* entry is the payload of the writer that wrote last, which is also what
\* that writer returns.
C25_WritersWriteTheirOwn ==
    /\ \A w \in Workers :
          Writer(w)
              => /\ req[w].upstream = 1
                 /\ \E f \in CodesFiles :
                       req[w].out = Fetched(req[w].city, req[w].response, f).resp
    /\ \A v, w \in Workers :
          (/\ ConcurrentWriters(v, w)
           /\ req[v].city = req[w].city
           /\ req[v].response = req[w].response
           /\ req[v].out.Description = req[w].out.Description)
              => req[v].out = req[w].out
    /\ \A w \in Workers :
          (Done(w) /\ req[w].set = "ok")
              => /\ req[w].setKey \in DOMAIN rdb
                 /\ rdb[req[w].setKey].val = Marshal(req[w].out)
                 /\ req[w].err = NoError

\* C25 witness: two calls for one city missed in one window; one has written
\* its result and returned it while the other is about to write a result
\* that differs
C25_Witness ==
    \E v, w \in Workers :
        /\ v # w
        /\ Done(w) /\ req[w].set = "ok" /\ req[w].upstream = 1
        /\ Writer(v)
        /\ req[v].cityKey = req[w].cityKey
        /\ req[v].getWin = req[w].getWin
        /\ req[v].out # req[w].out
        /\ rdb[req[w].setKey].val = Marshal(req[w].out)

\* the request's context was done while its upstream call was in flight:
\* after the call had started, before the upstream answer was complete, and
\* before the client's own timeout had ended the call
\* the moment the exchange of tin is over when nothing stops it: the body
\* is there, or the connection has failed
ExchangeEndsAt ==
    tin.startAt + tin.headersAfter
        + (IF tin.response.transport = "ok" THEN tin.bodyAfter ELSE 0)

DoneInFlight ==
    /\ tout.done /\ tout.upstream
    /\ tin.startAt <= CtxDoneAt(tin.cancelAt)
    /\ CtxDoneAt(tin.cancelAt) < ExchangeEndsAt
    /\ CtxDoneAt(tin.cancelAt) <= tin.startAt + ClientTimeout

\* C26: when the context is done while the upstream call is in flight, the
\* call ends then and not when the upstream answer is complete, GetWeather
\* returns an error and no result, and the handler answers 500.
C26_CancelAbortsUpstream ==
    DoneInFlight
        => /\ tout.returnedAt = CtxDoneAt(tin.cancelAt)
           /\ tout.ret.err # NoError
           /\ tout.ret.err.msg \in {"upstream request failed", "upstream error",
                                    "decode failed"}
           /\ tout.ret.resp = ZeroResp
           /\ tout.reply.status = 500
           /\ tout.reply.body = ErrorBody("upstream or server error")

\* C26 witness: the caller went away 2 s into a call whose upstream answer,
\* a good one, would have been complete after 8 s
C26_Witness ==
    /\ DoneInFlight
    /\ tin.cancelAt = 2 /\ tin.startAt = 0
    /\ tin.headersAfter = 5 /\ tin.bodyAfter = 3
    /\ tin.response.status = 200 /\ tin.response.body = UpstreamObj(27, 3)
    /\ tout.returnedAt = 2
    /\ tout.ret.err = ErrUpstreamRequest
    /\ tout.reply.status = 500

\* C26 witness of the deadline: nobody cancels, the upstream call starts 6 s
\* in and the handler's 15 s run out before the client's 10 s do
C26_DeadlineReached ==
    /\ DoneInFlight
    /\ tin.cancelAt = NoCancel /\ tin.startAt = 6
    /\ tin.headersAfter = 12
    /\ tout.returnedAt = 15
    /\ tout.reply.status = 500

\* the store holds after the step an entry it did not hold before it
StoreWritten ==
    \E k \in DOMAIN rdb' : k \notin DOMAIN rdb \/ rdb'[k] # rdb[k]

\* C27: a call that ends in an error has done no Set and its last step leaves
\* the store as it was; and the store gets an entry only in the step of a
\* call that missed, resolved its city, got a 200 answer from the upstream
\* provider that decoded, and then returns its result.
C27_OnlySuccessWrites ==
    [][ /\ \A w \in Workers :
              (req'[w].pc = "done" /\ req'[w].err # NoError)
                  => /\ req'[w].err.msg \in
                           {"city name is required", "cities data unavailable",
                            "city not found", "upstream request failed",
                            "upstream error", "decode failed"}
                     /\ req'[w].set = "none"
                     /\ rdb' = rdb
        /\ StoreWritten
              => \E w \in Workers :
                    /\ req[w].pc = "cacheSet"
                    /\ req[w].get \in {"miss", "error", "corrupt"}
                    /\ req[w].resolved
                    /\ req[w].upstream = 1
                    /\ req[w].response.transport = "ok"
                    /\ req[w].response.status = 200
                    /\ req[w].response.body.valid
                    /\ req'[w].pc = "done"
                    /\ req'[w].set = "ok"
                    /\ req'[w].err = NoError
                    /\ req'[w].setKey \in DOMAIN rdb'
                    /\ rdb'[req'[w].setKey].val = Marshal(req'[w].out)
      ]_vars

\* C27 witness: the store holds an entry, and a call that missed has ended
\* with a decode error without a Set
C27_Witness ==
    \E w \in Workers :
        /\ Done(w)
        /\ req[w].err = ErrDecode
        /\ req[w].getSaw = "absent"
        /\ req[w].upstream = 1
        /\ req[w].set = "none"
        /\ DOMAIN rdb # {}

\* C28 (as stated): a call that missed and reached its Set has written under
\* the key its Get looked up.
C28_SetKeyIsGetKey ==
    \A w \in Workers :
        (Done(w) /\ req[w].set # "none") => req[w].setKey = req[w].getKey

\* C28 (amended): the Set writes under the key of the window the clock is in
\* at the Set; that is the key of the Get exactly when the Set falls into the
\* window of the Get, and the key of the later window when the fetch has
\* crossed a boundary.
C28_SetKeyIsKeyAtSet ==
    \A w \in Workers :
        (Done(w) /\ req[w].set # "none")
            => /\ req[w].setKey =
                     << "weather", req[w].cityKey,
                        FormatRFC3339UTC(roundTo15Min(Now, LocalOffset)) >>
               /\ req[w].setWin[2] = WindowIndex(Now, LocalOffset)
               /\ req[w].setWin[2] >= req[w].getWin[2]
               /\ (req[w].setKey = req[w].getKey)
                     <=> (req[w].setWin = req[w].getWin)

\* C28 witness: the Get was made in one window, the fetch took until the
\* next, and the result was stored under the key of the next window, where
\* it is, while the key the Get looked up is still absent
C28_Witness ==
    \E w \in Workers :
        /\ Done(w) /\ req[w].set = "ok"
        /\ req[w].getSaw = "absent"
        /\ req[w].setWin[2] = req[w].getWin[2] + 1
        /\ req[w].setKey # req[w].getKey
        /\ req[w].setKey \in DOMAIN rdb
        /\ req[w].getKey \notin DOMAIN rdb

\* the time of the Set that wrote the entry under key k
StoredAt(k) == rdb[k].exp - 15 * 60

\* C29: a call that was served from the cache got the entry under the key of
\* the window of its Get; that entry was written less than 15 minutes before
\* and in that same window, and what the call returns is what the entry
\* decodes to. So an entry is not returned to a Get of another window, though
\* the store may still hold it.
C29_HitIsFreshAndSameWindow ==
    \A w \in Workers :
        (Done(w) /\ req[w].get = "hit")
            => /\ req[w].getKey = buildKey(req[w].cityKey, Now, LocalOffset)
               /\ req[w].getKey \in DOMAIN rdb
               /\ StoredAt(req[w].getKey) <= now
               /\ now - StoredAt(req[w].getKey) < 15 * 60
               /\ WindowIndex([unix |-> StoredAt(req[w].getKey), nsec |-> 0],
                              LocalOffset)
                     = WindowIndex(Now, LocalOffset)
               /\ req[w].out = Unmarshal(rdb[req[w].getKey].val).resp
               /\ req[w].upstream = 0

\* C29 witness: a call is served from an entry written seven and a half
\* minutes earlier in the same window
C29_Witness ==
    \E w \in Workers :
        /\ Done(w) /\ req[w].get = "hit"
        /\ now - StoredAt(req[w].getKey) = TickStep
        /\ req[w].status = 200

\* a call in the next window misses while the store still holds, under the
\* key of the window before, an entry for its city
C29_OtherWindowMisses ==
    \E w \in Workers :
        /\ Done(w) /\ req[w].getSaw = "absent" /\ req[w].upstream = 1
        /\ \E k \in DOMAIN rdb :
              /\ k[2] = req[w].cityKey
              /\ k # req[w].getKey
              /\ now < rdb[k].exp
              /\ WindowIndex([unix |-> StoredAt(k), nsec |-> 0], LocalOffset)
                    < req[w].getWin[2]

\* C30 (as stated): two inputs that resolve to the same location entry have
\* the same cache key at a given time, and the second is served from the
\* entry the first has stored.
C30_SameEntrySameKey ==
    (nout.done /\ nout.lookup1.ok /\ nout.lookup1 = nout.lookup2)
        => /\ nout.cacheKey1 = nout.cacheKey2
           /\ nout.served2

\* C30 (amended): two inputs have the same cache key at a given time exactly
\* when they are equal but for the case of letters and the white space
\* around them, and the second is served from the entry of the first exactly
\* then; an input that resolves through the part before its comma has a key
\* of its own.
C30_KeyIsPerSpelling ==
    nout.done
        => /\ (nout.cacheKey1 = nout.cacheKey2)
                 <=> EqualFold(Core(nin.city1), Core(nin.city2))
           /\ nout.served2 <=> (nout.cacheKey1 = nout.cacheKey2)
           /\ (nout.lookup1.ok /\ CommaForm(nout.key1, nout.key2))
                 => /\ nout.lookup2 = nout.lookup1
                    /\ nout.cacheKey1 # nout.cacheKey2
                    /\ ~nout.served2

\* C30 witness: "chennai" and "chennai, india" resolve to the same entry and
\* have different cache keys, so the second finds nothing under its key
C30_Witness ==
    /\ nout.done
    /\ nin.city1 = chennai /\ nin.city2 = chennaiIndia
    /\ nout.lookup1.ok /\ nout.lookup1 = nout.lookup2
    /\ nout.cacheKey1 # nout.cacheKey2
    /\ ~nout.served2

====
